---- MODULE Spec2Model ----
(***************************************************************************)
(* Model of hashmap.c: a fixed-size table of 256 bucket head slots with   *)
(* separate chaining, keyed by C strings.                                 *)
(*                                                                         *)
(* Pointers are modelled as integers: NULL is 0, WILD stands for any     *)
(* indeterminate non-null bit pattern left in memory that malloc did not  *)
(* clear, key pointers are the string objects of KeyMem, value pointers   *)
(* are the members of Values and chain-node pointers index heap.          *)
(***************************************************************************)
EXTENDS Integers, Sequences, FiniteSets, TLC

\* ------------------------------------------------------------- bounds
\* at most this many chain nodes are ever allocated by snew(hashmap_entry)
MaxNodes == 2
\* the same for the runs of SpecChain, which need a chain rebuilt after a cut
MaxChainNodes == 3

\* ---------------------------------------------------------- constants
NUM_BUCKETS == 256
NULL == 0
\* an indeterminate non-null pointer value (uninitialised memory)
WILD == -1
\* the has_entry field of a chain node: snew() leaves it unset, never read
UNSET == -2

\* ------------------------------------------------------ caller strings
\* The memory found at each key pointer: the string's bytes, its NUL and
\* the bytes that happen to follow it in memory.
\*   1: "terminal.fg"        2: "terminal.bg"
\*   3: "port" followed by zero bytes
\*   4: "port" (another copy of the string) followed by the bytes "abc"
\*   5: "terminal.cr", indexing the slot of keys 1 and 2 in both builds
\* With 4-byte pointers keys 1, 2 index slot 145 and keys 3, 4 slot 208;
\* with 8-byte pointers keys 1, 2 index slot 40, key 3 slot 89, key 4 slot 137.
KeyMem ==
  << <<116,101,114,109,105,110,97,108,46,102,103,0>>,
     <<116,101,114,109,105,110,97,108,46,98,103,0>>,
     <<112,111,114,116,0,0,0,0>>,
     <<112,111,114,116,0,97,98,99>>,
     <<116,101,114,109,105,110,97,108,46,99,114,0>> >>

AllKeys == 1..Len(KeyMem)
\* the keys passed in the runs of Spec and SpecZeroed
Keys == {1, 2, 3, 4}
\* the keys passed in the runs of SpecChain: three strings of one slot
ChainKeys == {1, 2, 5}
\* the value pointers the callers pass
Values == {1, 2}

RECURSIVE strlen_from(_, _)
strlen_from(mem, i) ==
  IF mem[i] = 0 THEN 0 ELSE 1 + strlen_from(mem, i + 1)

\* the C string at key pointer p: the bytes before the first NUL
Content(p) == SubSeq(KeyMem[p], 1, strlen_from(KeyMem[p], 1))

\* sizeof(key) of the builds considered: 32-bit and 64-bit
SizeofPtrChoices == {4, 8}

\* ---------------------------------------------------------------- crc32
\* 32-bit words are kept as two 16-bit halves.
RECURSIVE Xor(_, _)
Xor(a, b) ==
  IF a = 0 THEN b
  ELSE IF b = 0 THEN a
  ELSE ((a + b) % 2) + 2 * Xor(a \div 2, b \div 2)

WXor(x, y) == [hi |-> Xor(x.hi, y.hi), lo |-> Xor(x.lo, y.lo)]
WShr1(x) == [hi |-> x.hi \div 2, lo |-> (x.lo \div 2) + (x.hi % 2) * 32768]
WShr8(x) == [hi |-> x.hi \div 256, lo |-> (x.lo \div 256) + (x.hi % 256) * 256]
\* the reflected CRC-32 polynomial 0xEDB88320
CrcPoly == [hi |-> 60856, lo |-> 33568]

RECURSIVE CrcBits(_, _)
CrcBits(c, n) ==
  IF n = 0 THEN c
  ELSE CrcBits(IF c.lo % 2 = 1 THEN WXor(CrcPoly, WShr1(c)) ELSE WShr1(c), n - 1)

crc32_table == [i \in 0..255 |-> CrcBits([hi |-> 0, lo |-> i], 8)]

RECURSIVE crc32_update(_, _, _)
crc32_update(crcword, buf, len) ==
  IF len = 0 THEN crcword
  ELSE LET newbyte == Xor(Head(buf), crcword.lo % 256)
       IN crc32_update(WXor(WShr8(crcword), crc32_table[newbyte]), Tail(buf), len - 1)

crc32_compute(buf, len) == crc32_update([hi |-> 0, lo |-> 0], buf, len)

\* index % n for a 32-bit word and a bucket count n that divides 65536
WMod(x, n) == x.lo % n

\* crc32_compute((void*)(key), sizeof(key)) for every key pointer and build
KeyCrc ==
  [s \in SizeofPtrChoices |-> [p \in AllKeys |-> crc32_compute(KeyMem[p], s)]]

\* hash_bytes over the whole content of a string, as the design asks
ContentCrc == [p \in AllKeys |-> crc32_compute(Content(p), Len(Content(p)))]

\* ---------------------------------------------------------------- state
VARIABLES
  data,         \* h->data: the NUM_BUCKETS head slots, indexed 0..NUM_BUCKETS-1
  heap,         \* the chain nodes made by snew(hashmap_entry), by address 1..
  num_buckets,  \* h->num_buckets
  num_entries,  \* h->num_entries
  allocated,    \* the heap blocks obtained and not yet released
  status,       \* "alive", "aborted" (assert), "segv" (wild pointer), "freed"
  sizeof_key,   \* build: sizeof(char *)
  inserted,     \* history: inserted[p] is the value last passed with key p
  reinserted,   \* history: some string was passed as a key more than once
  first_order   \* history, kept in the runs of SpecChain: the keys in the
                \* order of their first insertion

vars == <<data, heap, num_buckets, num_entries, allocated, status,
          sizeof_key, inserted, reinserted, first_order>>

\* struct hashmap_entry
ZeroCell == [key |-> NULL, value |-> NULL, has_entry |-> 0, next |-> NULL]

\* what an uncleared slot of the bucket array may hold: by chance the
\* zero pattern, or stale pointers in key and value with a flag that is 1
\* or not and a link that is null or not
GarbageCells ==
  {ZeroCell} \cup
  ([key : {WILD}, value : {WILD}, has_entry : {0, 1}, next : {NULL, WILD}]
     \ {[key |-> WILD, value |-> WILD, has_entry |-> 0, next |-> NULL]})

BlockH == [kind |-> "hashmap", at |-> 0]
BlockData == [kind |-> "data", at |-> 0]
BlockNode(n) == [kind |-> "entry", at |-> n]

NoRet == [kind |-> "none", value |-> NULL]
RetValue(v) == [kind |-> "value", value |-> v]

\* the program state as one value, for the operations below; ret is the
\* pointer the last hashmap_get call returned
M ==
  [data |-> data, heap |-> heap, num_buckets |-> num_buckets,
   num_entries |-> num_entries, allocated |-> allocated, status |-> status,
   ret |-> NoRet, sizeof_key |-> sizeof_key]

\* a pointer to a hashmap_entry: a head slot of h->data or a chain node
SlotRef(i) == [slot |-> TRUE, at |-> i]
NodeRef(n) == [slot |-> FALSE, at |-> n]
FaultRef == [slot |-> FALSE, at |-> WILD]

Deref(m, ref) == IF ref.slot THEN m.data[ref.at] ELSE m.heap[ref.at]

Store(m, ref, cell) ==
  IF ref.slot THEN [m EXCEPT !.data[ref.at] = cell]
  ELSE [m EXCEPT !.heap[ref.at] = cell]

\* hash over the bytes of the whole string, strlen(key) of them
hash_whole_string(m, key) == WMod(ContentCrc[key], m.num_buckets)

\* unsigned int hash(hashmap *h, char *key)
hash(m, key) == WMod(KeyCrc[m.sizeof_key][key], m.num_buckets)

\* the slots the keys of this model index in a build
SlotsOfInterest(s) == {WMod(KeyCrc[s][p], NUM_BUCKETS) : p \in Keys}

\* hashmap *Hashmap(): the states it can return.  snew/snewn do not clear
\* memory; memset(h->data, 0, sizeof(h->data)) clears sizeof(pointer) bytes,
\* the key field of slot 0.  Of all the patterns the rest of the array may
\* hold, the model takes those with at most one uncleared slot, among the
\* slots the model's keys index.
Hashmap(d, g) ==
  [data |-> [i \in 0..(NUM_BUCKETS - 1) |->
               IF i = d THEN (IF i = 0 THEN [g EXCEPT !.key = NULL] ELSE g)
               ELSE ZeroCell],
   heap |-> << >>,
   num_buckets |-> NUM_BUCKETS,
   num_entries |-> 0,
   allocated |-> {BlockH, BlockData}]

Init ==
  /\ sizeof_key \in SizeofPtrChoices
  /\ \E d \in SlotsOfInterest(sizeof_key), g \in GarbageCells :
       LET h == Hashmap(d, g)
       IN /\ data = h.data
          /\ heap = h.heap
          /\ num_buckets = h.num_buckets
          /\ num_entries = h.num_entries
          /\ allocated = h.allocated
  /\ status = "alive"
  /\ inserted = [p \in AllKeys |-> NULL]
  /\ reinserted = FALSE
  /\ first_order = << >>

\* the chain walk of hashmap_add (line 93): the cell it stops at
RECURSIVE add_walk(_, _, _)
add_walk(m, ref, key) ==
  LET cell == Deref(m, ref)
  IN IF cell.next # NULL /\ key # cell.key
     THEN IF cell.next = WILD THEN FaultRef
          ELSE add_walk(m, NodeRef(cell.next), key)
     ELSE ref

\* lines 104-106
add_store(m, ref, key, value) ==
  Store(m, ref, [Deref(m, ref) EXCEPT !.key = key, !.value = value, !.next = NULL])

\* hashmap_add with the chain node taken from one static hashmap_entry
\* instead of snew(hashmap_entry)
hashmap_add_static_node(m, key, value) ==
  IF m.status # "alive" THEN m
  ELSE
  LET index == hash(m, key)
      head == SlotRef(index)
  IN IF Deref(m, head).has_entry = 1 /\ key # Deref(m, head).key
     THEN LET cell == add_walk(m, head, key)
          IN IF cell = FaultRef THEN [m EXCEPT !.status = "segv"]
             ELSE IF key # Deref(m, cell).key
             THEN LET linked == Store(m, cell, [Deref(m, cell) EXCEPT !.next = 1])
                      grown == IF Len(m.heap) = 0
                               THEN [linked EXCEPT
                                       !.heap = <<[key |-> WILD, value |-> WILD,
                                                   has_entry |-> UNSET, next |-> WILD]>>,
                                       !.allocated = @ \cup {BlockNode(1)}]
                               ELSE linked
                  IN add_store(grown, NodeRef(1), key, value)
             ELSE add_store(m, cell, key, value)
     ELSE add_store(Store(m, head, [Deref(m, head) EXCEPT !.has_entry = 1]),
                    head, key, value)

\* unsigned int hashmap_add(hashmap *h, char *key, char *value): the state
\* it leaves.  The function has no return statement; no caller's use of its
\* value is modelled.  num_entries is not written anywhere in it.
hashmap_add(m, key, value) ==
  IF m.status # "alive" THEN m
  ELSE
  LET index == hash(m, key)
      head == SlotRef(index)
  IN IF Deref(m, head).has_entry = 1 /\ key # Deref(m, head).key
     THEN LET cell == add_walk(m, head, key)
          IN IF cell = FaultRef THEN [m EXCEPT !.status = "segv"]
             ELSE IF key # Deref(m, cell).key
             THEN LET n == Len(m.heap) + 1
                      linked == Store(m, cell, [Deref(m, cell) EXCEPT !.next = n])
                      grown == [linked EXCEPT
                                  !.heap = Append(@, [key |-> WILD, value |-> WILD,
                                                      has_entry |-> UNSET, next |-> WILD]),
                                  !.allocated = @ \cup {BlockNode(n)}]
                  IN add_store(grown, NodeRef(n), key, value)
             ELSE add_store(m, cell, key, value)
     ELSE add_store(Store(m, head, [Deref(m, head) EXCEPT !.has_entry = 1]),
                    head, key, value)

\* the chain walk of hashmap_get (line 129)
RECURSIVE get_walk(_, _, _)
get_walk(m, ref, key) ==
  LET cell == Deref(m, ref)
  IN IF cell.next # NULL /\ cell.key # key
     THEN IF cell.next = WILD THEN FaultRef
          ELSE get_walk(m, NodeRef(cell.next), key)
     ELSE ref

\* hashmap_get ending, like hashmap_add, with cell->next = NULL on the cell
\* it found
hashmap_get_cutting(m, key) ==
  IF m.status # "alive" THEN m
  ELSE
  LET cell == get_walk(m, SlotRef(hash(m, key)), key)
  IN IF cell = FaultRef THEN [m EXCEPT !.status = "segv"]
     ELSE IF Deref(m, cell).key # key
     THEN [m EXCEPT !.status = "aborted"]
     ELSE [Store(m, cell, [Deref(m, cell) EXCEPT !.next = NULL])
             EXCEPT !.ret = RetValue(Deref(m, cell).value)]

\* char *hashmap_get(hashmap *h, char *key): the state it leaves, with the
\* returned pointer in ret.  A failed assert (line 136) aborts the process
\* (assert is taken as compiled in: the file does not define NDEBUG).
\* Past the assert cell->key is the caller's key and cell->value the string
\* stored with it, so the debug block's sprintf reads two valid strings.
hashmap_get(m, key) ==
  IF m.status # "alive" THEN m
  ELSE
  LET cell == get_walk(m, SlotRef(hash(m, key)), key)
  IN IF cell = FaultRef THEN [m EXCEPT !.status = "segv"]
     ELSE IF Deref(m, cell).key # key
     THEN [m EXCEPT !.status = "aborted"]
     ELSE [m EXCEPT !.ret = RetValue(Deref(m, cell).value)]

\* void hashmap_free(hashmap *h)
hashmap_free(m) ==
  [m EXCEPT !.allocated = @ \ {BlockData, BlockH}, !.status = "freed"]

Becomes(m) ==
  /\ data' = m.data
  /\ heap' = m.heap
  /\ num_buckets' = m.num_buckets
  /\ num_entries' = m.num_entries
  /\ allocated' = m.allocated
  /\ status' = m.status
  /\ UNCHANGED sizeof_key

\* a string with the content of key p has been passed to hashmap_add
WasInserted(p) == \E q \in AllKeys : Content(q) = Content(p) /\ inserted[q] # NULL

\* the histories after a call hashmap_add(h, key, value)
Recorded(key, value) ==
  /\ inserted' = [inserted EXCEPT ![key] = value]
  /\ reinserted' = (reinserted \/ WasInserted(key))

Add(key, value) ==
  /\ status = "alive"
  /\ Len(hashmap_add(M, key, value).heap) <= MaxNodes
  /\ Becomes(hashmap_add(M, key, value))
  /\ Recorded(key, value)
  /\ UNCHANGED first_order

ChainAdd(key, value) ==
  /\ status = "alive"
  /\ Len(hashmap_add(M, key, value).heap) <= MaxChainNodes
  /\ Becomes(hashmap_add(M, key, value))
  /\ Recorded(key, value)
  /\ first_order' = IF inserted[key] # NULL THEN first_order
                    ELSE Append(first_order, key)

Get(key) ==
  /\ status = "alive"
  /\ Becomes(hashmap_get(M, key))
  /\ UNCHANGED <<inserted, reinserted, first_order>>

Free ==
  /\ status = "alive"
  /\ Becomes(hashmap_free(M))
  /\ UNCHANGED <<inserted, reinserted, first_order>>

Next ==
  \/ \E key \in Keys, value \in Values : Add(key, value)
  \/ \E key \in Keys : Get(key)
  \/ Free

Spec == Init /\ [][Next]_vars

\* the runs in which malloc happened to hand out zero-filled memory
InitZeroed == Init /\ data = [i \in 0..(NUM_BUCKETS - 1) |-> ZeroCell]

SpecZeroed == InitZeroed /\ [][Next]_vars

\* the runs that insert the three keys of one slot into zero-filled memory
NextChain == \E key \in ChainKeys, value \in Values : ChainAdd(key, value)

SpecChain == InitZeroed /\ [][NextChain]_vars

\* ---------------------------------------------------------------- claims
\* what a caller gets from hashmap_get(h, key) in state m: the returned
\* pointer, or the way the process ended
GetRet(m, key) ==
  LET r == hashmap_get(m, key)
  IN IF r.status = "alive" THEN r.ret ELSE [kind |-> r.status, value |-> NULL]

SameContent(p, q) == Content(p) = Content(q)

\* the contents passed as keys so far
InsertedContents == {Content(p) : p \in {q \in Keys : inserted[q] # NULL}}

\* C1: after any sequence of inserts, hashmap_get of every key inserted at
\* least once returns the value of the most recent insert of that key
C1_LastInsertWins ==
  status = "alive" =>
    \A k \in Keys : inserted[k] # NULL => GetRet(M, k) = RetValue(inserted[k])

\* C2: round trip: from every reachable state, hashmap_get(k) right after
\* hashmap_add(k, v) returns v, whether k was absent or present
C2_RoundTrip ==
  status = "alive" =>
    \A k \in Keys, v \in Values : GetRet(hashmap_add(M, k, v), k) = RetValue(v)

\* C3: absence: hashmap_get of a key never inserted ends in a recoverable
\* not-found result (no abort, no fault, no other key's value)
C3_AbsenceIsNotFound ==
  status = "alive" =>
    \A k \in Keys : ~WasInserted(k) =>
      /\ hashmap_get(M, k).status = "alive"
      /\ hashmap_get(M, k).ret.value \notin Values

\* C4: keys match by content: after hashmap_add(k1, v), hashmap_get of another
\* string object k2 with the same content returns v, and hashmap_add(k2, v2)
\* overwrites k1's entry (k1 then reads v2)
C4_ContentEquality ==
  status = "alive" =>
    \A k1 \in Keys, k2 \in Keys, v \in Values, v2 \in Values :
      (k1 # k2 /\ SameContent(k1, k2)) =>
        /\ GetRet(hashmap_add(M, k1, v), k2) = RetValue(v)
        /\ GetRet(hashmap_add(hashmap_add(M, k1, v), k2, v2), k1) = RetValue(v2)

\* C5: when only pairwise distinct keys were inserted, each once, one more
\* insert of a new key succeeds and every inserted key reads its own value
C5_DistinctKeysRetrievable ==
  (status = "alive" /\ ~reinserted) =>
    \A k \in Keys, v \in Values : ~WasInserted(k) =>
      LET m2 == hashmap_add(M, k, v)
      IN /\ GetRet(m2, k) = RetValue(v)
         /\ \A q \in Keys : inserted[q] # NULL => GetRet(m2, q) = RetValue(inserted[q])

\* C6: num_entries equals the number of distinct keys inserted so far
C6_EntryCount ==
  status = "alive" => num_entries = Cardinality(InsertedContents)

\* C7: right after Hashmap() every slot is empty (flag clear, no key, no
\* successor) and num_entries is 0
C7_CreatedEmpty ==
  (status = "alive" /\ \A k \in Keys : inserted[k] = NULL) =>
    /\ num_entries = 0
    /\ \A i \in 0..(NUM_BUCKETS - 1) :
         data[i].has_entry = 0 /\ data[i].key = NULL /\ data[i].next = NULL

\* C8: after hashmap_free no chain node, nor the bucket array, nor the map
\* remains allocated
C8_FreeReleasesAll ==
  status = "freed" => allocated = {}

\* C9: hash(h, key) is the crc of the key's whole content modulo NUM_BUCKETS,
\* so keys of identical content get the same index
C9_HashOfContent ==
  \A k \in Keys :
    /\ hash(M, k) \in 0..(NUM_BUCKETS - 1)
    /\ hash(M, k) = WMod(ContentCrc[k], NUM_BUCKETS)
    /\ \A q \in Keys : SameContent(k, q) => hash(M, q) = hash(M, k)

\* C10: order independence: for keys of different buckets, inserting them in
\* either order from any reachable state gives maps in which hashmap_get has
\* the same result for every key
C10_OrderIndependence ==
  status = "alive" =>
    \A k1 \in Keys, k2 \in Keys, v1 \in Values, v2 \in Values :
      hash(M, k1) # hash(M, k2) =>
        \A k \in Keys :
          GetRet(hashmap_add(hashmap_add(M, k1, v1), k2, v2), k)
            = GetRet(hashmap_add(hashmap_add(M, k2, v2), k1, v1), k)

\* two keys of different buckets are both stored, in chains that already held
\* another entry, and both are read back
C10_Witness ==
  /\ status = "alive"
  /\ \E k1 \in Keys, k2 \in Keys :
       /\ hash(M, k1) # hash(M, k2)
       /\ inserted[k1] # NULL /\ inserted[k2] # NULL
       /\ data[hash(M, k1)].key # k1 /\ data[hash(M, k2)].key # k2
       /\ GetRet(M, k1) = RetValue(inserted[k1])
       /\ GetRet(M, k2) = RetValue(inserted[k2])

\* ------------------------------------------------------------- chains
\* the cells met from ref by following next, up to a null or stale link
RECURSIVE Chain(_, _)
Chain(m, ref) ==
  LET cell == Deref(m, ref)
  IN IF cell.next = NULL \/ cell.next = WILD THEN <<ref>>
     ELSE <<ref>> \o Chain(m, NodeRef(cell.next))

BucketChain(m, i) == Chain(m, SlotRef(i))

Range(seq) == {seq[j] : j \in 1..Len(seq)}

\* the cells that hold an entry: the chains of the slots flagged occupied
EntryRefs(m) ==
  UNION {Range(BucketChain(m, i)) :
           i \in {j \in 0..(m.num_buckets - 1) : m.data[j].has_entry = 1}}

\* the cell of key (the same pointer) in its bucket's chain, if it has one
Present(m, key) ==
  LET cell == get_walk(m, SlotRef(hash(m, key)), key)
  IN cell # FaultRef /\ Deref(m, cell).key = key

\* some entry of key's bucket holds a string with the content of key
PresentByContent(m, key) ==
  /\ m.data[hash(m, key)].has_entry = 1
  /\ \E r \in Range(BucketChain(m, hash(m, key))) :
       Deref(m, r).key \in Keys /\ SameContent(Deref(m, r).key, key)

\* C11: every chain is finite, acyclic and null-terminated, so the walks of
\* hashmap_add and hashmap_get end at a matching entry or at the tail
C11_ChainsNullTerminated ==
  status = "alive" =>
    /\ \A i \in 0..(NUM_BUCKETS - 1) :
         LET ch == BucketChain(M, i)
         IN /\ Deref(M, ch[Len(ch)]).next = NULL
            /\ Cardinality(Range(ch)) = Len(ch)
    /\ \A k \in Keys :
         /\ hashmap_get(M, k).status # "segv"
         /\ \A v \in Values : hashmap_add(M, k, v).status # "segv"

\* C12: hashmap_add of a key already in its chain changes the value field of
\* that key's cell and nothing else (links, other cells, other slots, heap)
C12_OverwriteInPlace ==
  status = "alive" =>
    \A k \in Keys, v \in Values : Present(M, k) =>
      LET cell == get_walk(M, SlotRef(hash(M, k)), k)
      IN hashmap_add(M, k, v) = Store(M, cell, [Deref(M, cell) EXCEPT !.value = v])

\* C13: no two entries of the map hold keys of the same content
C13_OneEntryPerKey ==
  status = "alive" =>
    \A r1 \in EntryRefs(M), r2 \in EntryRefs(M) :
      (r1 # r2 /\ Deref(M, r1).key \in Keys /\ Deref(M, r2).key \in Keys)
        => ~SameContent(Deref(M, r1).key, Deref(M, r2).key)

\* the place of key in the order of first insertion
RECURSIVE PlaceIn(_, _)
PlaceIn(seq, key) ==
  IF seq = << >> THEN 1
  ELSE IF Head(seq) = key THEN 1
  ELSE 1 + PlaceIn(Tail(seq), key)

\* C14: the entries of every chain appear, head to tail, in the order in which
\* their keys were first inserted (first_order, in the runs of SpecChain)
C14_ChainInInsertionOrder ==
  status = "alive" =>
    \A i \in {j \in 0..(NUM_BUCKETS - 1) : data[j].has_entry = 1} :
      LET ch == BucketChain(M, i)
      IN \A a \in 1..Len(ch), b \in 1..Len(ch) :
           a < b => PlaceIn(first_order, Deref(M, ch[a]).key)
                      < PlaceIn(first_order, Deref(M, ch[b]).key)

\* C15 as stated: hash() gives the same index for every key
C15_ConstantIndex ==
  \A k1 \in Keys, k2 \in Keys : hash(M, k1) = hash(M, k2)

\* C15 amended: hash() hashes the first sizeof(key) bytes of the memory at key
\* (a prefix of the string, running past its NUL when it is shorter): keys
\* that agree on those bytes get the same index, whatever follows, and keys
\* that differ in them can get different indices
C15_PrefixIndex ==
  /\ \A k1 \in Keys, k2 \in Keys :
       SubSeq(KeyMem[k1], 1, sizeof_key) = SubSeq(KeyMem[k2], 1, sizeof_key)
         => hash(M, k1) = hash(M, k2)
  /\ \E k1 \in Keys, k2 \in Keys : hash(M, k1) # hash(M, k2)

\* two strings of different content that agree on their first sizeof(key)
\* bytes are stored in one chain, and a third key in another slot
C15_Witness ==
  /\ status = "alive"
  /\ \E k1 \in Keys, k2 \in Keys, k3 \in Keys :
       /\ ~SameContent(k1, k2)
       /\ SubSeq(KeyMem[k1], 1, sizeof_key) = SubSeq(KeyMem[k2], 1, sizeof_key)
       /\ data[hash(M, k1)].has_entry = 1 /\ data[hash(M, k1)].key = k1
       /\ data[hash(M, k1)].next \in 1..Len(heap)
       /\ heap[data[hash(M, k1)].next].key = k2
       /\ hash(M, k3) # hash(M, k1)
       /\ data[hash(M, k3)].key = k3

\* C16: every node allocated by hashmap_add stays linked into some slot's chain
C16_NodesStayLinked ==
  status = "alive" =>
    \A n \in 1..Len(heap) :
      \E i \in 0..(NUM_BUCKETS - 1) : NodeRef(n) \in Range(BucketChain(M, i))

\* C17: hashmap_get writes nothing of the map, for present and absent keys,
\* and a second hashmap_get of the same key returns what the first returned
C17_GetReadOnly ==
  status = "alive" =>
    \A k \in Keys :
      LET r == hashmap_get(M, k)
      IN /\ r.data = data /\ r.heap = heap
         /\ r.num_buckets = num_buckets /\ r.num_entries = num_entries
         /\ r.allocated = allocated
         /\ r.status = "alive" => GetRet(r, k) = r.ret

\* a key stored in a chain node with a successor is read, and another key is
\* absent from the same map
C17_Witness ==
  /\ status = "alive"
  /\ \E k \in Keys, n \in 1..Len(heap) :
       /\ heap[n].key = k /\ heap[n].next # NULL
       /\ GetRet(M, k) = RetValue(heap[n].value)
  /\ \E k \in Keys : ~Present(M, k)

\* C18: hashmap_add allocates one node when the key is absent and the head
\* slot is occupied, and none when the head slot is empty (the slot then holds
\* the entry, flagged, without successor) or the key is already present
C18_AllocatesOnlyOnCollision ==
  status = "alive" =>
    \A k \in Keys, v \in Values :
      LET m2 == hashmap_add(M, k, v)
          i == hash(M, k)
      IN /\ Len(m2.heap) - Len(heap)
              = IF data[i].has_entry = 1 /\ ~PresentByContent(M, k) THEN 1 ELSE 0
         /\ m2.allocated \ allocated = {BlockNode(n) : n \in (Len(heap) + 1)..Len(m2.heap)}
         /\ data[i].has_entry # 1 =>
              m2.data[i] = [key |-> k, value |-> v, has_entry |-> 1, next |-> NULL]

====
